---- MODULE Spec2Model ----
(***************************************************************************)
(* DisneyLiveDB (src/unnamed/part_000, lines 200-408): a local replica of  *)
(* a remote document store with a single-flight init(), a get() that       *)
(* awaits it, a snapshot dump()/load() pair and a checkpoint loop.         *)
(*                                                                         *)
(* One action is one run-to-completion segment of JavaScript (from a call  *)
(* or a promise continuation to the next await), or one I/O step executed  *)
(* by the runtime (fs.access, open/truncate, streamed write, rename,       *)
(* replication).  Node gives no ordering between independent asynchronous  *)
(* fs operations, so pending I/O steps interleave freely.                  *)
(*                                                                         *)
(* HTTP (src/lib/parks/http.js, lines 89-207): the request helper with its *)
(* request and response injections and its retry through promiseRetry,     *)
(* specified by SpecHTTP over the variable http.                           *)
(***************************************************************************)
EXTENDS Integers, Sequences, FiniteSets, TLC

\* ---- bounds ----
NumCallers == 1
MaxLai == 2
MaxDumps == 2
MaxRemoteChanges == 1

\* ---- universe ----
Users == 1..NumCallers
Sched == 0
Procs == Users \cup {Sched}
IdSeq == <<"A">>
Ids == {IdSeq[i] : i \in 1..Len(IdSeq)}
Vals == {"OPERATING", "DOWN"}
NoDoc == "NoDoc"
Docs == [Ids -> Vals \cup {NoDoc}]
EmptyDocs == [i \in Ids |-> NoDoc]
OldDocs == [i \in Ids |-> "OPERATING"]
None == -1
Inodes == 0..MaxDumps
Runs == 1..MaxLai
Attempts == 1..MaxDumps

VARIABLES
  synced,                     \* this.synced
  initPromiseSync,            \* this.initPromiseSync: 0 = null, r = promise of run r
  databaseDumpPendingPromise, \* 0 = null/undefined, k = write promise of attempt k
  lai,                        \* the _loadAndInit() invocations
  nLai,                       \* number of _loadAndInit() invocations started
  dumps,                      \* the snapshot writes started by dump()
  nDumps,                     \* number of snapshot writes started
  callers,                    \* the callers of init()/get()/dump() and the checkpoint loop
  remote,                     \* documents on remoteDB
  nChanges,                   \* number of changes made on remoteDB since construction
  localDB,                    \* documents in localDB
  canonIno,                   \* file at localdb/<name>.db (None = absent)
  tmpIno,                     \* file at localdb/<name>_new.db (None = absent)
  files,                      \* contents of the files
  live,                       \* number of live replication sessions started
  liveUp,                     \* the live session is connected (FALSE: failed, waiting to retry)
  http                        \* the HTTP helper (src/lib/parks/http.js): its injections and one call

dbvars == <<synced, initPromiseSync, databaseDumpPendingPromise, lai, nLai, dumps,
            nDumps, callers, remote, nChanges, localDB, canonIno, tmpIno, files, live, liveUp>>
vars == <<synced, initPromiseSync, databaseDumpPendingPromise, lai, nLai, dumps,
          nDumps, callers, remote, nChanges, localDB, canonIno, tmpIno, files, live, liveUp,
          http>>

NoLai == [pc |-> "none", wait |-> 0, cont |-> FALSE, loaded |-> FALSE,
          loadFailed |-> FALSE, replicated |-> FALSE, replFailed |-> FALSE]
NoDump == [st |-> "none", fd |-> None, n |-> 0]
NoFile == [docs |-> EmptyDocs, complete |-> FALSE]
IdleCaller == [op |-> "none", pc |-> "idle", id |-> "A", wait |-> 0, res |-> "none",
               via |-> "none", late |-> FALSE, dvia |-> "none"]

\* ---- the HTTP helper: universe ----
MaxInjections == 2
MaxResponseInjections == 2
\* promiseRetry({retries: 3}, ...), http.js line 130
Retries == 3
\* resp.statusCode >= 400, http.js line 169
ErrorStatus == 400
Hosts == {"a.example", "b.example"}
Statuses == {200, ErrorStatus - 1, ErrorStatus, 503}
\* what a request injection does when called: it returns or it throws
RequestFuncs == {"set", "throw"}
\* what a response injection does with the response: hand it back, return
\* undefined, return a changed response, throw
ResponseFuncs == {"keep", "drop", "fix", "throw"}
\* a response is a defined object with a statusCode, or undefined
UndefinedResp == [defined |-> FALSE, statusCode |-> 0]
Responses == {[defined |-> TRUE, statusCode |-> sc] : sc \in Statuses} \cup {UndefinedResp}
\* HTTP(), lines 89-92: no injections registered, no call made
NoCall == [pc |-> "idle", host |-> "a.example", ignoreErrors |-> FALSE, attempts |-> 0,
           idx |-> 1, ran |-> <<>>, resp |-> UndefinedResp, result |-> UndefinedResp]
NoHttp == [injections |-> <<>>, responseInjections |-> <<>>, nInj |-> 0, call |-> NoCall]

\* constructor: lines 230-272
Init ==
  /\ synced = FALSE
  /\ initPromiseSync = 0
  /\ databaseDumpPendingPromise = 0
  /\ lai = [r \in Runs |-> NoLai]
  /\ nLai = 0
  /\ dumps = [k \in Attempts |-> NoDump]
  /\ nDumps = 0
  /\ callers = [c \in Procs |-> IF c = Sched
                                THEN [IdleCaller EXCEPT !.op = "sched", !.pc = "delay"]
                                ELSE IdleCaller]
  /\ remote \in Docs
  /\ nChanges = 0
  /\ localDB = EmptyDocs
  /\ canonIno \in {None, 0}
  /\ tmpIno = None
  /\ files = [i \in Inodes |-> IF i = 0 /\ canonIno = 0
                               THEN [docs |-> OldDocs, complete |-> TRUE]
                               ELSE NoFile]
  /\ live = 0
  /\ liveUp = FALSE
  /\ http = NoHttp

\* ---- the guards of init() and dump() ----
\* IsSynced with the test inverted
IsSynced_M2 == ~synced
\* IsSynced with the early return missing
IsSynced_M4 == FALSE
\* line 278: if (this.synced) return;
IsSynced == synced

\* HasPendingInit with the pending promise never handed out
HasPendingInit_M == FALSE
\* line 282: if (this.initPromiseSync) return this.initPromiseSync;
HasPendingInit == initPromiseSync # 0

\* HasPendingDump with the pending write never handed out
HasPendingDump_M == FALSE
\* line 361: if (this.databaseDumpPendingPromise) return it
HasPendingDump == databaseDumpPendingPromise # 0


\* ---- LocalStore, RemoteSource and the snapshot file ----
\* PouchDB.replicate(remoteDB, localDB, {batch_size: 500}), lines 314-316:
\* every document of the remote replaces the local one (remote revisions win)
Replicate(from, to) == [i \in Ids |-> IF from[i] # NoDoc THEN from[i] ELSE to[i]]

\* LoadInto with the content of the file dropped
LoadInto_M(f, to) == to
\* localDB.load(stream), lines 350-353: the documents of the file are written to localDB
LoadInto(f, to) == [i \in Ids |-> IF f.docs[i] # NoDoc THEN f.docs[i] ELSE to[i]]

\* line 406: this.localDB.get.apply(this, args) runs PouchDB's get with the
\* DisneyLiveDB object as receiver, not this.localDB
GetReceiver == "this"

\* PouchDB's get on a receiver: on the database it returns the document or
\* fails with NotFound; the DisneyLiveDB object is no database (it has none of
\* the adapter's state), so the call rejects with a TypeError
LocalDBGet(receiver, id) ==
  IF receiver = "localDB"
  THEN (IF localDB[id] = NoDoc THEN "NotFound" ELSE localDB[id])
  ELSE "TypeError"

\* ---- what a caller does once its init() / dump() has settled ----
Rec(op, pc, id, wait, res, via, late) ==
  [op |-> op, pc |-> pc, id |-> id, wait |-> wait, res |-> res, via |-> via, late |-> late,
   dvia |-> "none"]

\* AfterInit with the checkpoint loop going on to dump() after a rejected init()
AfterInit_M(cl, ok) ==
  CASE cl.op = "init" -> [cl EXCEPT !.pc = "idle", !.res = IF ok THEN "ok" ELSE "err"]
    [] cl.op = "get" -> IF ok THEN [cl EXCEPT !.pc = "get_read"]
                              ELSE [cl EXCEPT !.pc = "idle", !.res = "err"]
    [] OTHER -> [cl EXCEPT !.pc = "s_dump"]

\* init() settled: init() callers are done, get() goes on to line 406,
\* _scheduleDBDump goes on to line 394 or dies with the rejection
AfterInit(cl, ok) ==
  CASE cl.op = "init" -> [cl EXCEPT !.pc = "idle", !.res = IF ok THEN "ok" ELSE "err"]
    [] cl.op = "get" -> IF ok THEN [cl EXCEPT !.pc = "get_read"]
                              ELSE [cl EXCEPT !.pc = "idle", !.res = "err"]
    [] OTHER -> IF ok THEN [cl EXCEPT !.pc = "s_dump"]
                      ELSE [cl EXCEPT !.pc = "stopped", !.res = "err"]

\* dump() settled: dump() callers are done, _scheduleDBDump goes on to line 396
AfterDump(cl, ok) ==
  CASE cl.op = "dump" -> [cl EXCEPT !.pc = "idle", !.res = IF ok THEN "ok" ELSE "err"]
    [] OTHER -> IF ok THEN [cl EXCEPT !.pc = "s_tick"]
                      ELSE [cl EXCEPT !.pc = "stopped", !.res = "err"]

\* the write promise of attempt k has settled and the continuation of the
\* dump() that started it (lines 377-380) has run
WriteSettled(k) == dumps[k].st \in {"wfailed", "renaming", "renamed", "rfailed"}
WriteOk(k) == dumps[k].st \in {"renaming", "renamed", "rfailed"}
\* DumpSettled with a failed write or rename never settling the promise
DumpSettled_M(k) == dumps[k].st = "renamed"
\* the promise returned by the dump() that started attempt k has settled
DumpSettled(k) == dumps[k].st \in {"wfailed", "renamed", "rfailed"}
DumpOk(k) == dumps[k].st = "renamed"

\* ---- init(), lines 277-301 ----
\* the synchronous part of init() (lines 278-287), run by c as part of op
InitEnter(c, op, id) ==
  LET late == initPromiseSync # 0 /\ lai[initPromiseSync].pc = "rejected" IN
  IF IsSynced
  THEN /\ callers' = [callers EXCEPT ![c] =
                        AfterInit(Rec(op, "idle", id, 0, "none", "synced", late), TRUE)]
       /\ UNCHANGED <<http, initPromiseSync, lai, nLai>>
  ELSE IF HasPendingInit
  THEN /\ callers' = [callers EXCEPT ![c] =
                        Rec(op, "init_co", id, initPromiseSync, "none", "co", late)]
       /\ UNCHANGED <<http, initPromiseSync, lai, nLai>>
  ELSE /\ nLai < MaxLai
       /\ nLai' = nLai + 1
       \* _loadAndInit() runs up to load()'s await fs.access (line 342)
       /\ lai' = [lai EXCEPT ![nLai + 1] = [NoLai EXCEPT !.pc = "access"]]
       /\ initPromiseSync' = nLai + 1
       /\ callers' = [callers EXCEPT ![c] =
                        Rec(op, "init_first", id, nLai + 1, "none", "first", late)]

\* a caller calls init()
InitCall(c) ==
  /\ c \in Users
  /\ callers[c].pc = "idle"
  /\ InitEnter(c, "init", "A")
  /\ UNCHANGED <<http, synced, databaseDumpPendingPromise, dumps, nDumps, remote, nChanges,
                 localDB, canonIno, tmpIno, files, live, liveUp>>

\* a caller calls get(id): line 405 calls init()
GetCall(c, id) ==
  /\ c \in Users
  /\ callers[c].pc = "idle"
  /\ InitEnter(c, "get", id)
  /\ UNCHANGED <<http, synced, databaseDumpPendingPromise, dumps, nDumps, remote, nChanges,
                 localDB, canonIno, tmpIno, files, live, liveUp>>

\* InitFirstResume with the handle cleared on failure as well as on success
InitFirstResume_M(c) ==
  /\ callers[c].pc = "init_first"
  /\ LET r == callers[c].wait IN
       /\ lai[r].pc \in {"resolved", "rejected"}
       /\ ~lai[r].cont
       /\ lai' = [lai EXCEPT ![r].cont = TRUE]
       /\ initPromiseSync' = 0
       /\ IF lai[r].pc = "resolved"
          THEN /\ synced' = TRUE
               /\ live' = live + 1
               /\ liveUp' = TRUE
               /\ callers' = [callers EXCEPT ![c] = AfterInit(callers[c], TRUE)]
          ELSE /\ callers' = [callers EXCEPT ![c] = AfterInit(callers[c], FALSE)]
               /\ UNCHANGED <<http, synced, live, liveUp>>
  /\ UNCHANGED <<http, databaseDumpPendingPromise, nLai, dumps, nDumps, remote, nChanges,
                 localDB, canonIno, tmpIno, files>>

\* lines 287-300: the continuation of the init() call that started run r
InitFirstResume(c) ==
  /\ callers[c].pc = "init_first"
  /\ LET r == callers[c].wait IN
       /\ lai[r].pc \in {"resolved", "rejected"}
       /\ ~lai[r].cont
       /\ lai' = [lai EXCEPT ![r].cont = TRUE]
       /\ IF lai[r].pc = "resolved"
          THEN /\ initPromiseSync' = 0
               /\ synced' = TRUE
               /\ live' = live + 1
               /\ liveUp' = TRUE
               /\ callers' = [callers EXCEPT ![c] = AfterInit(callers[c], TRUE)]
          ELSE /\ callers' = [callers EXCEPT ![c] = AfterInit(callers[c], FALSE)]
               /\ UNCHANGED <<http, initPromiseSync, synced, live, liveUp>>
  /\ UNCHANGED <<http, databaseDumpPendingPromise, nLai, dumps, nDumps, remote, nChanges,
                 localDB, canonIno, tmpIno, files>>

\* InitCoResume with the coalesced caller opening a live session of its own
InitCoResume_M(c) ==
  /\ callers[c].pc = "init_co"
  /\ LET r == callers[c].wait IN
       /\ lai[r].pc \in {"resolved", "rejected"}
       /\ lai[r].cont
       /\ live' = IF lai[r].pc = "resolved" THEN live + 1 ELSE live
       /\ callers' = [callers EXCEPT ![c] = AfterInit(callers[c], lai[r].pc = "resolved")]
  /\ UNCHANGED <<http, synced, initPromiseSync, databaseDumpPendingPromise, lai, nLai, dumps,
                 nDumps, remote, nChanges, localDB, canonIno, tmpIno, files, liveUp>>

\* line 282: a caller that was handed the promise of run r settles with it,
\* after the continuation registered first (that of the starting call)
InitCoResume(c) ==
  /\ callers[c].pc = "init_co"
  /\ LET r == callers[c].wait IN
       /\ lai[r].pc \in {"resolved", "rejected"}
       /\ lai[r].cont
       /\ callers' = [callers EXCEPT ![c] = AfterInit(callers[c], lai[r].pc = "resolved")]
  /\ UNCHANGED <<http, synced, initPromiseSync, databaseDumpPendingPromise, lai, nLai, dumps,
                 nDumps, remote, nChanges, localDB, canonIno, tmpIno, files, live, liveUp>>

\* line 406: get() reads the document
GetRead(c) ==
  /\ callers[c].pc = "get_read"
  /\ callers' = [callers EXCEPT ![c] =
                   [@ EXCEPT !.pc = "idle", !.res = LocalDBGet(GetReceiver, callers[c].id)]]
  /\ UNCHANGED <<http, synced, initPromiseSync, databaseDumpPendingPromise, lai, nLai, dumps,
                 nDumps, remote, nChanges, localDB, canonIno, tmpIno, files, live, liveUp>>


\* ---- dump(), lines 360-381 ----
\* the synchronous part of dump() (lines 361-376): hand out the pending write
\* promise, or open a writer on <name>_new.db and start a write
DumpTarget == IF HasPendingDump THEN databaseDumpPendingPromise ELSE nDumps + 1
DumpVia == IF HasPendingDump THEN "co" ELSE "first"
DumpEnter ==
  IF HasPendingDump
  THEN UNCHANGED <<http, databaseDumpPendingPromise, dumps, nDumps>>
  ELSE /\ nDumps < MaxDumps
       /\ nDumps' = nDumps + 1
       /\ dumps' = [dumps EXCEPT ![nDumps + 1] = [NoDump EXCEPT !.st = "opening"]]
       /\ databaseDumpPendingPromise' = nDumps + 1

\* a caller calls dump()
DumpCall(c) ==
  /\ c \in Users
  /\ callers[c].pc = "idle"
  /\ DumpEnter
  /\ callers' = [callers EXCEPT ![c] =
       [Rec("dump", IF DumpVia = "co" THEN "dump_co" ELSE "dump_first", "A", DumpTarget,
            "none", "none", FALSE) EXCEPT !.dvia = DumpVia]]
  /\ UNCHANGED <<http, synced, initPromiseSync, lai, nLai, remote, nChanges, localDB, canonIno,
                 tmpIno, files, live, liveUp>>

\* createWriteStream(dumpPathNew), line 371: the open (flags 'w') creates the
\* file or truncates the one at that path
DumpOpen(k) ==
  /\ dumps[k].st = "opening"
  /\ LET ino == IF tmpIno = None THEN k ELSE tmpIno IN
       /\ tmpIno' = ino
       /\ files' = [files EXCEPT ![ino] = NoFile]
       /\ dumps' = [dumps EXCEPT ![k] = [@ EXCEPT !.st = "writing", !.fd = ino]]
  /\ UNCHANGED <<http, synced, initPromiseSync, databaseDumpPendingPromise, lai, nLai, nDumps,
                 callers, remote, nChanges, localDB, canonIno, live, liveUp>>

\* localDB.dump(ws), lines 372-374: the next document is streamed to the open file
WriteChunk(k) ==
  /\ dumps[k].st = "writing"
  /\ dumps[k].n < Len(IdSeq)
  /\ LET i == IdSeq[dumps[k].n + 1] IN
       files' = [files EXCEPT ![dumps[k].fd] =
                   [docs |-> [@.docs EXCEPT ![i] = localDB[i]], complete |-> FALSE]]
  /\ dumps' = [dumps EXCEPT ![k].n = @ + 1]
  /\ UNCHANGED <<http, synced, initPromiseSync, databaseDumpPendingPromise, lai, nLai, nDumps,
                 callers, remote, nChanges, localDB, canonIno, tmpIno, live, liveUp>>

\* the stream has been written to the end: the write promise resolves
WriteDone(k) ==
  /\ dumps[k].st = "writing"
  /\ dumps[k].n = Len(IdSeq)
  /\ files' = [files EXCEPT ![dumps[k].fd].complete = TRUE]
  /\ dumps' = [dumps EXCEPT ![k].st = "written"]
  /\ UNCHANGED <<http, synced, initPromiseSync, databaseDumpPendingPromise, lai, nLai, nDumps,
                 callers, remote, nChanges, localDB, canonIno, tmpIno, live, liveUp>>

\* the open or the streamed write fails: the write promise rejects, the await
\* of line 376 throws and lines 377-380 never run
WriteFail(k) ==
  /\ dumps[k].st \in {"opening", "writing"}
  /\ dumps' = [dumps EXCEPT ![k].st = "wfailed"]
  /\ UNCHANGED <<http, synced, initPromiseSync, databaseDumpPendingPromise, lai, nLai, nDumps,
                 callers, remote, nChanges, localDB, canonIno, tmpIno, files, live, liveUp>>

\* lines 377-380: the continuation of the dump() that started attempt k clears
\* the handle and issues the rename
DumpAfterWrite(k) ==
  /\ dumps[k].st = "written"
  /\ databaseDumpPendingPromise' = 0
  /\ dumps' = [dumps EXCEPT ![k].st = "renaming"]
  /\ UNCHANGED <<http, synced, initPromiseSync, lai, nLai, nDumps, callers, remote, nChanges,
                 localDB, canonIno, tmpIno, files, live, liveUp>>

\* a write stream that is still being written holds its file open
HeldOpen(ino) == \E j \in Attempts : dumps[j].st = "writing" /\ dumps[j].fd = ino

\* fs.rename(dumpPathNew, dumpPath), line 380, is executed: whatever file is at
\* <name>_new.db replaces <name>.db; ENOENT when there is none
RenameExec(k) ==
  /\ dumps[k].st = "renaming"
  /\ IF tmpIno = None
     THEN /\ dumps' = [dumps EXCEPT ![k].st = "rfailed"]
          /\ UNCHANGED <<http, canonIno, tmpIno, files>>
     ELSE /\ dumps' = [dumps EXCEPT ![k].st = "renamed"]
          /\ canonIno' = tmpIno
          /\ tmpIno' = None
          \* the replaced file is unlinked: it is gone unless a writer holds it open
          /\ files' = IF canonIno # None /\ ~HeldOpen(canonIno)
                      THEN [files EXCEPT ![canonIno] = NoFile]
                      ELSE files
  /\ UNCHANGED <<http, synced, initPromiseSync, databaseDumpPendingPromise, lai, nLai, nDumps,
                 callers, remote, nChanges, localDB, live, liveUp>>

\* fs.rename fails with an I/O error: nothing is renamed
RenameFail(k) ==
  /\ dumps[k].st = "renaming"
  /\ dumps' = [dumps EXCEPT ![k].st = "rfailed"]
  /\ UNCHANGED <<http, synced, initPromiseSync, databaseDumpPendingPromise, lai, nLai, nDumps,
                 callers, remote, nChanges, localDB, canonIno, tmpIno, files, live, liveUp>>

\* the dump() call that started attempt k settles with the rename (line 380)
\* or with the failure of the write (line 376)
DumpFirstSettle(c) ==
  /\ callers[c].pc = "dump_first"
  /\ DumpSettled(callers[c].wait)
  /\ callers' = [callers EXCEPT ![c] = AfterDump(callers[c], DumpOk(callers[c].wait))]
  /\ UNCHANGED <<http, synced, initPromiseSync, databaseDumpPendingPromise, lai, nLai, dumps,
                 nDumps, remote, nChanges, localDB, canonIno, tmpIno, files, live, liveUp>>

\* line 362: a dump() call that was handed the pending write promise settles with it
DumpCoSettle(c) ==
  /\ callers[c].pc = "dump_co"
  /\ WriteSettled(callers[c].wait)
  /\ callers' = [callers EXCEPT ![c] = AfterDump(callers[c], WriteOk(callers[c].wait))]
  /\ UNCHANGED <<http, synced, initPromiseSync, databaseDumpPendingPromise, lai, nLai, dumps,
                 nDumps, remote, nChanges, localDB, canonIno, tmpIno, files, live, liveUp>>

\* ---- _loadAndInit() and load(), lines 308-354 ----
\* fs.access(dumpPath), lines 341-345: load() returns at once when the file is absent
LoadAccess(r) ==
  /\ lai[r].pc = "access"
  /\ lai' = [lai EXCEPT ![r].pc = IF canonIno = None THEN "replicate" ELSE "loading"]
  /\ UNCHANGED <<http, synced, initPromiseSync, databaseDumpPendingPromise, nLai, dumps, nDumps,
                 callers, remote, nChanges, localDB, canonIno, tmpIno, files, live, liveUp>>

\* localDB.load(stream), lines 350-353, succeeds; line 314 starts the replication
LoadDone(r) ==
  /\ lai[r].pc = "loading"
  /\ localDB' = LoadInto(files[canonIno], localDB)
  /\ lai' = [lai EXCEPT ![r] = [@ EXCEPT !.pc = "replicate", !.loaded = TRUE]]
  /\ UNCHANGED <<http, synced, initPromiseSync, databaseDumpPendingPromise, nLai, dumps, nDumps,
                 callers, remote, nChanges, canonIno, tmpIno, files, live, liveUp>>

\* localDB.load(stream) rejects (unreadable or corrupt file): load() returns that
\* promise (line 351), the await of line 310 throws and _loadAndInit() rejects
LoadFail(r) ==
  /\ lai[r].pc = "loading"
  /\ lai' = [lai EXCEPT ![r] = [@ EXCEPT !.pc = "rejected", !.loadFailed = TRUE]]
  /\ UNCHANGED <<http, synced, initPromiseSync, databaseDumpPendingPromise, nLai, dumps, nDumps,
                 callers, remote, nChanges, localDB, canonIno, tmpIno, files, live, liveUp>>

\* the replication of lines 314-316 completes; line 319 calls dump()
ReplicateDone(r) ==
  /\ lai[r].pc = "replicate"
  /\ localDB' = Replicate(remote, localDB)
  /\ DumpEnter
  /\ lai' = [lai EXCEPT ![r] = [@ EXCEPT !.pc = IF DumpVia = "co" THEN "dump_co" ELSE "dump_first",
                                         !.wait = DumpTarget, !.replicated = TRUE]]
  /\ UNCHANGED <<http, synced, initPromiseSync, nLai, callers, remote, nChanges, canonIno,
                 tmpIno, files, live, liveUp>>

\* ReplicateFail with _loadAndInit() going on to line 319 on the content of the
\* snapshot alone
ReplicateFail_M(r) ==
  /\ lai[r].pc = "replicate"
  /\ DumpEnter
  /\ lai' = [lai EXCEPT ![r] = [@ EXCEPT !.pc = IF DumpVia = "co" THEN "dump_co" ELSE "dump_first",
                                         !.wait = DumpTarget, !.replFailed = TRUE]]
  /\ UNCHANGED <<http, synced, initPromiseSync, nLai, callers, remote, nChanges, localDB, canonIno,
                 tmpIno, files, live, liveUp>>

\* the replication of lines 314-316 rejects: _loadAndInit() rejects
ReplicateFail(r) ==
  /\ lai[r].pc = "replicate"
  /\ lai' = [lai EXCEPT ![r] = [@ EXCEPT !.pc = "rejected", !.replFailed = TRUE]]
  /\ UNCHANGED <<http, synced, initPromiseSync, databaseDumpPendingPromise, nLai, dumps, nDumps,
                 callers, remote, nChanges, localDB, canonIno, tmpIno, files, live, liveUp>>

\* line 319: return await this.dump(): _loadAndInit() settles with its dump()
LaiDumpSettle(r) ==
  /\ \/ /\ lai[r].pc = "dump_first"
        /\ DumpSettled(lai[r].wait)
        /\ lai' = [lai EXCEPT ![r].pc = IF DumpOk(lai[r].wait) THEN "resolved" ELSE "rejected"]
     \/ /\ lai[r].pc = "dump_co"
        /\ WriteSettled(lai[r].wait)
        /\ lai' = [lai EXCEPT ![r].pc = IF WriteOk(lai[r].wait) THEN "resolved" ELSE "rejected"]
  /\ UNCHANGED <<http, synced, initPromiseSync, databaseDumpPendingPromise, nLai, dumps, nDumps,
                 callers, remote, nChanges, localDB, canonIno, tmpIno, files, live, liveUp>>

\* ---- _scheduleDBDump(), lines 389-397 ----
\* the delay of line 390 elapses; line 393 calls init()
TimerFire ==
  /\ callers[Sched].pc = "delay"
  /\ InitEnter(Sched, "sched", "A")
  /\ UNCHANGED <<http, synced, databaseDumpPendingPromise, dumps, nDumps, remote, nChanges,
                 localDB, canonIno, tmpIno, files, live, liveUp>>

\* line 394: init() has resolved, the loop calls dump()
SchedDump ==
  /\ callers[Sched].pc = "s_dump"
  /\ DumpEnter
  /\ callers' = [callers EXCEPT ![Sched] =
       [@ EXCEPT !.pc = IF DumpVia = "co" THEN "dump_co" ELSE "dump_first",
                 !.wait = DumpTarget, !.dvia = DumpVia]]
  /\ UNCHANGED <<http, synced, initPromiseSync, lai, nLai, remote, nChanges, localDB, canonIno,
                 tmpIno, files, live, liveUp>>

\* line 396: process.nextTick runs _scheduleDBDump again, which waits at line 390
SchedTick ==
  /\ callers[Sched].pc = "s_tick"
  /\ callers' = [callers EXCEPT ![Sched] = [IdleCaller EXCEPT !.op = "sched", !.pc = "delay"]]
  /\ UNCHANGED <<http, synced, initPromiseSync, databaseDumpPendingPromise, lai, nLai, dumps,
                 nDumps, remote, nChanges, localDB, canonIno, tmpIno, files, live, liveUp>>

\* ---- RemoteSource and the live replication session ----
\* a document is created or updated on the remote
RemoteChange(i, v) ==
  /\ nChanges < MaxRemoteChanges
  /\ remote[i] # v
  /\ remote' = [remote EXCEPT ![i] = v]
  /\ nChanges' = nChanges + 1
  /\ UNCHANGED <<http, synced, initPromiseSync, databaseDumpPendingPromise, lai, nLai, dumps,
                 nDumps, callers, localDB, canonIno, tmpIno, files, live, liveUp>>

\* LiveFail with a failure of the session marking the store un-synced
LiveFail_M ==
  /\ live > 0
  /\ liveUp
  /\ liveUp' = FALSE
  /\ synced' = FALSE
  /\ UNCHANGED <<http, initPromiseSync, databaseDumpPendingPromise, lai, nLai, dumps, nDumps,
                 callers, remote, nChanges, localDB, canonIno, tmpIno, files, live>>

\* lines 295-300: the session fails (transport error); the only handler the
\* code attaches is the 'change' listener, so nothing of the store is touched
LiveFail ==
  /\ live > 0
  /\ liveUp
  /\ liveUp' = FALSE
  /\ UNCHANGED <<http, synced, initPromiseSync, databaseDumpPendingPromise, lai, nLai, dumps,
                 nDumps, callers, remote, nChanges, localDB, canonIno, tmpIno, files, live>>

\* line 297: retry: true, the session reconnects
LiveReconnect ==
  /\ live > 0
  /\ ~liveUp
  /\ liveUp' = TRUE
  /\ UNCHANGED <<http, synced, initPromiseSync, databaseDumpPendingPromise, lai, nLai, dumps,
                 nDumps, callers, remote, nChanges, localDB, canonIno, tmpIno, files, live>>

\* lines 295-300: the live session applies a change of the remote to localDB
LiveDeliver(i) ==
  /\ live > 0
  /\ liveUp
  /\ remote[i] # NoDoc
  /\ localDB[i] # remote[i]
  /\ localDB' = [localDB EXCEPT ![i] = remote[i]]
  /\ UNCHANGED <<http, synced, initPromiseSync, databaseDumpPendingPromise, lai, nLai, dumps,
                 nDumps, callers, remote, nChanges, canonIno, tmpIno, files, live, liveUp>>

Next ==
  \/ \E c \in Users : InitCall(c)
  \/ \E c \in Users, i \in Ids : GetCall(c, i)
  \/ \E c \in Users : DumpCall(c)
  \/ \E c \in Procs : InitFirstResume(c)
  \/ \E c \in Procs : InitCoResume(c)
  \/ \E c \in Procs : GetRead(c)
  \/ \E c \in Procs : DumpFirstSettle(c)
  \/ \E c \in Procs : DumpCoSettle(c)
  \/ \E k \in Attempts : DumpOpen(k)
  \/ \E k \in Attempts : WriteChunk(k)
  \/ \E k \in Attempts : WriteDone(k)
  \/ \E k \in Attempts : WriteFail(k)
  \/ \E k \in Attempts : DumpAfterWrite(k)
  \/ \E k \in Attempts : RenameExec(k)
  \/ \E k \in Attempts : RenameFail(k)
  \/ \E r \in Runs : LoadAccess(r)
  \/ \E r \in Runs : LoadDone(r)
  \/ \E r \in Runs : LoadFail(r)
  \/ \E r \in Runs : ReplicateDone(r)
  \/ \E r \in Runs : ReplicateFail(r)
  \/ \E r \in Runs : LaiDumpSettle(r)
  \/ TimerFire
  \/ SchedDump
  \/ SchedTick
  \/ \E i \in Ids, v \in Vals : RemoteChange(i, v)
  \/ \E i \in Ids : LiveDeliver(i)
  \/ LiveFail
  \/ LiveReconnect

Spec == Init /\ [][Next]_vars


\* ---- scheduling ----
\* every I/O operation that was started eventually completes or fails, and
\* every continuation whose promise has settled is eventually run
FairSpec ==
  /\ Spec
  /\ \A r \in Runs :
       /\ WF_vars(LoadAccess(r))
       /\ WF_vars(LoadDone(r) \/ LoadFail(r))
       /\ WF_vars(ReplicateDone(r) \/ ReplicateFail(r))
       /\ WF_vars(LaiDumpSettle(r))
  /\ \A k \in Attempts :
       /\ WF_vars(DumpOpen(k) \/ WriteChunk(k) \/ WriteDone(k) \/ WriteFail(k))
       /\ WF_vars(DumpAfterWrite(k))
       /\ WF_vars(RenameExec(k) \/ RenameFail(k))
  /\ \A c \in Procs :
       /\ WF_vars(InitFirstResume(c))
       /\ WF_vars(InitCoResume(c))
       /\ WF_vars(GetRead(c))

\* ---- the round trip dump() then load() ----
\* a store with any content, and possibly a snapshot of an earlier run
InitRT ==
  /\ synced = FALSE
  /\ initPromiseSync = 0
  /\ databaseDumpPendingPromise = 0
  /\ lai = [r \in Runs |-> NoLai]
  /\ nLai = 0
  /\ dumps = [k \in Attempts |-> NoDump]
  /\ nDumps = 0
  /\ callers = [c \in Procs |-> IF c = Sched
                                THEN [IdleCaller EXCEPT !.op = "sched", !.pc = "delay"]
                                ELSE IdleCaller]
  /\ remote \in Docs
  /\ nChanges = 0
  /\ localDB \in Docs
  /\ canonIno \in {None, 0}
  /\ tmpIno = None
  /\ files = [i \in Inodes |-> IF i = 0 /\ canonIno = 0
                               THEN [docs |-> OldDocs, complete |-> TRUE]
                               ELSE NoFile]
  /\ live = 0
  /\ liveUp = FALSE
  /\ http = NoHttp

\* no dump() is running: every write started has failed or has been renamed
NoDumpRunning == \A k \in Attempts : dumps[k].st \in {"none", "wfailed", "renamed", "rfailed"}

\* dump() called while no other dump() is running
RTDump(c) ==
  /\ NoDumpRunning
  /\ DumpCall(c)

\* load() (lines 337-354) into a fresh LocalStore, after a dump() that resolved:
\* nothing is loaded when the canonical file is absent
FreshLoad(c) ==
  /\ c \in Users
  /\ callers[c].pc = "idle"
  /\ callers[c].op = "dump"
  /\ callers[c].res = "ok"
  /\ NoDumpRunning
  /\ localDB' = IF canonIno = None THEN EmptyDocs ELSE LoadInto(files[canonIno], EmptyDocs)
  /\ callers' = [callers EXCEPT ![c] = [IdleCaller EXCEPT !.op = "load", !.res = "ok"]]
  /\ UNCHANGED <<http, synced, initPromiseSync, databaseDumpPendingPromise, lai, nLai, dumps,
                 nDumps, remote, nChanges, canonIno, tmpIno, files, live, liveUp>>

NextRT ==
  \/ \E c \in Users : RTDump(c)
  \/ \E c \in Users : FreshLoad(c)
  \/ \E c \in Users : DumpFirstSettle(c)
  \/ \E c \in Users : DumpCoSettle(c)
  \/ \E k \in Attempts : DumpOpen(k)
  \/ \E k \in Attempts : WriteChunk(k)
  \/ \E k \in Attempts : WriteDone(k)
  \/ \E k \in Attempts : WriteFail(k)
  \/ \E k \in Attempts : DumpAfterWrite(k)
  \/ \E k \in Attempts : RenameExec(k)
  \/ \E k \in Attempts : RenameFail(k)

SpecRT == InitRT /\ [][NextRT]_vars

\* ---- the HTTP helper, http.js lines 89-207 ----
\* mainFunction.injectForDomain(filter, func), lines 184-190
InjectForDomain(h, f) ==
  /\ Len(http.injections) < MaxInjections
  /\ http' = [http EXCEPT !.injections = Append(@, [host |-> h, func |-> f, id |-> http.nInj + 1]),
                          !.nInj = @ + 1]
  /\ UNCHANGED dbvars

\* mainFunction.injectForDomainResponse(filter, func), lines 199-204
InjectForDomainResponse(h, f) ==
  /\ Len(http.responseInjections) < MaxResponseInjections
  /\ http' = [http EXCEPT !.responseInjections = Append(@, [host |-> h, func |-> f])]
  /\ UNCHANGED dbvars

\* injection.filter(urlFilter), lines 137 and 158
Matches(inj) == inj.host = http.call.host

\* lines 102-131: a call of the helper; promiseRetry runs the first attempt
HttpCall(h, ie) ==
  /\ http.call.pc = "idle"
  /\ http' = [http EXCEPT !.call = [NoCall EXCEPT !.pc = "inject", !.host = h,
                                                  !.ignoreErrors = ie]]
  /\ UNCHANGED dbvars

\* lines 133-140: one turn of the loop over this._httpInjections
RunInjection ==
  /\ http.call.pc = "inject"
  /\ http.call.idx <= Len(http.injections)
  /\ LET inj == http.injections[http.call.idx] IN
       IF ~Matches(inj)
       THEN http' = [http EXCEPT !.call.idx = @ + 1]
       ELSE IF inj.func = "throw"
       THEN http' = [http EXCEPT !.call.pc = "rejected", !.call.ran = Append(@, inj.id)]
       ELSE http' = [http EXCEPT !.call.idx = @ + 1, !.call.ran = Append(@, inj.id)]
  /\ UNCHANGED dbvars

\* line 146: the loop is over and needle(method, url, data, options) is called
Request ==
  /\ http.call.pc = "inject"
  /\ http.call.idx > Len(http.injections)
  /\ http' = [http EXCEPT !.call.pc = "request", !.call.attempts = @ + 1]
  /\ UNCHANGED dbvars

\* the needle promise resolves with a response
NeedleRespond(sc) ==
  /\ http.call.pc = "request"
  /\ http' = [http EXCEPT !.call.pc = "respond", !.call.idx = 1,
                          !.call.resp = [defined |-> TRUE, statusCode |-> sc]]
  /\ UNCHANGED dbvars

\* the needle promise rejects (network error): no retryFn, promiseRetry rejects
NeedleError ==
  /\ http.call.pc = "request"
  /\ http' = [http EXCEPT !.call.pc = "rejected"]
  /\ UNCHANGED dbvars

\* injection.func(resp), line 159
Apply(f, resp) ==
  CASE f = "keep" -> resp
    [] f = "drop" -> UndefinedResp
    [] OTHER -> [defined |-> TRUE, statusCode |-> 200]

\* lines 153-161: one turn of the loop over this._httpResponseInjections
RunResponseInjection ==
  /\ http.call.pc = "respond"
  /\ http.call.idx <= Len(http.responseInjections)
  /\ LET inj == http.responseInjections[http.call.idx] IN
       IF ~Matches(inj)
       THEN http' = [http EXCEPT !.call.idx = @ + 1]
       ELSE IF inj.func = "throw"
       THEN http' = [http EXCEPT !.call.pc = "rejected"]
       ELSE http' = [http EXCEPT !.call.idx = @ + 1, !.call.resp = Apply(inj.func, @)]
  /\ UNCHANGED dbvars

\* ShouldRetry with the comparison of line 169 off by one
ShouldRetry_M(resp, ignoreErrors) ==
  \/ ~resp.defined
  \/ ~ignoreErrors /\ resp.statusCode > ErrorStatus

\* lines 164-171: the tests that end in retryFn()
ShouldRetry(resp, ignoreErrors) ==
  \/ ~resp.defined
  \/ ~ignoreErrors /\ resp.statusCode >= ErrorStatus

\* lines 163-173 and promiseRetry: retryFn() throws the retry error, which
\* schedules the next attempt while retries are left and rejects the call
\* otherwise; without retryFn() the call resolves with the response
Evaluate ==
  /\ http.call.pc = "respond"
  /\ http.call.idx > Len(http.responseInjections)
  /\ http' = [http EXCEPT !.call =
       IF ShouldRetry(http.call.resp, http.call.ignoreErrors)
       THEN IF http.call.attempts <= Retries
            THEN [@ EXCEPT !.pc = "backoff"]
            ELSE [@ EXCEPT !.pc = "rejected"]
       ELSE [@ EXCEPT !.pc = "resolved", !.result = http.call.resp]]
  /\ UNCHANGED dbvars

\* the retry timer of promiseRetry fires: the function of line 131 runs again
RetryTimer ==
  /\ http.call.pc = "backoff"
  /\ http' = [http EXCEPT !.call.pc = "inject", !.call.idx = 1, !.call.ran = <<>>]
  /\ UNCHANGED dbvars

\* the caller has the outcome; the helper can be called again
HttpReturn ==
  /\ http.call.pc \in {"resolved", "rejected"}
  /\ http' = [http EXCEPT !.call = NoCall]
  /\ UNCHANGED dbvars

InitHTTP ==
  /\ Init
  /\ remote = EmptyDocs
  /\ canonIno = None

NextHTTP ==
  \/ \E h \in Hosts, f \in RequestFuncs : InjectForDomain(h, f)
  \/ \E h \in Hosts, f \in ResponseFuncs : InjectForDomainResponse(h, f)
  \/ \E h \in Hosts, ie \in BOOLEAN : HttpCall(h, ie)
  \/ RunInjection
  \/ Request
  \/ \E sc \in Statuses : NeedleRespond(sc)
  \/ NeedleError
  \/ RunResponseInjection
  \/ Evaluate
  \/ RetryTimer
  \/ HttpReturn

SpecHTTP == InitHTTP /\ [][NextHTTP]_vars

\* ---- properties ----
TypeOK ==
  /\ synced \in BOOLEAN
  /\ initPromiseSync \in 0..MaxLai
  /\ databaseDumpPendingPromise \in 0..MaxDumps
  /\ nLai \in 0..MaxLai
  /\ nDumps \in 0..MaxDumps
  /\ remote \in Docs
  /\ localDB \in Docs
  /\ canonIno \in Inodes \cup {None}
  /\ tmpIno \in Inodes \cup {None}
  /\ nChanges \in 0..MaxRemoteChanges
  /\ live \in 0..MaxLai
  /\ liveUp \in BOOLEAN

InitWaiting(c) == callers[c].pc \in {"init_first", "init_co"}
WriteInFlight(k) == dumps[k].st \in {"opening", "writing", "written"}

\* C1: _loadAndInit() is started at most once per store lifetime, whatever the
\* interleaving of init() and get() calls (also after a failed init()), and
\* callers that wait in init() concurrently wait on exactly one started run.
C1_SingleInitialSync ==
  /\ nLai <= 1
  /\ \A c \in Procs : InitWaiting(c) => nLai = 1 /\ callers[c].wait = 1

\* C1 witness: two callers wait in init() at once, one that started the run
\* and one that was handed its promise
C1_Witness ==
  \E c1, c2 \in Procs :
    /\ callers[c1].pc = "init_first"
    /\ callers[c2].pc = "init_co"
    /\ nLai = 1

\* C2: whenever a get() is about to read LocalStore (line 406), the store is
\* synced and the _loadAndInit() run has resolved after a completed batch
\* replication; this holds for the starting caller and for coalesced callers.
C2_GetReadsOnlyAfterSync ==
  \A c \in Procs :
    callers[c].pc = "get_read" =>
      /\ synced
      /\ \E r \in Runs : lai[r].pc = "resolved" /\ lai[r].replicated

\* C2 witness: a get() that was coalesced onto the in-flight init promise has
\* reached its read
C2_Witness ==
  \E c \in Procs : callers[c].pc = "get_read" /\ callers[c].via = "co"

\* C3: with no remote change since construction, a get(id) whose init() has
\* resolved returns the remote's value for every document present on the remote.
C3_GetReturnsRemoteValue ==
  \A c \in Users :
    (/\ callers[c].op = "get"
     /\ callers[c].pc = "idle"
     /\ callers[c].res \notin {"none", "err"}
     /\ nChanges = 0
     /\ remote[callers[c].id] # NoDoc)
    => callers[c].res = remote[callers[c].id]

\* C4: an init() call made while synced is true (by a caller, by get() or by
\* the checkpoint loop) loads nothing, replicates nothing, dumps nothing,
\* starts no live session and leaves synced and both in-flight handles as they were.
C4_InitNoOpWhenSynced ==
  [][(synced /\ (TimerFire \/ \E c \in Users :
                   InitCall(c) \/ \E i \in Ids : GetCall(c, i)))
       => UNCHANGED <<synced, initPromiseSync, databaseDumpPendingPromise, lai, nLai,
                      dumps, nDumps, localDB, canonIno, tmpIno, files, live, liveUp>>]_vars

\* C4 witness: an init() call made while synced has returned
C4_Witness ==
  \E c \in Users :
    /\ synced
    /\ callers[c].op = "init"
    /\ callers[c].via = "synced"
    /\ callers[c].res = "ok"

\* C5: once the batch replication of the first init() has failed, the store is
\* never synced, no second _loadAndInit() is started, no get() reaches its read
\* of LocalStore, and every init()/get() call that has settled, whether it was
\* waiting or was made afterwards, has settled with the failure.
ReplicationFailed == \E r \in Runs : lai[r].replFailed
C5_InitFailureIsFinal ==
  ReplicationFailed =>
    /\ ~synced
    /\ nLai = 1
    /\ live = 0
    /\ \A c \in Procs :
         /\ callers[c].pc \notin {"get_read", "s_dump", "s_tick"}
         /\ (callers[c].op \in {"init", "get"} /\ callers[c].pc = "idle")
              => callers[c].res = "err"
         /\ (callers[c].op = "sched" /\ callers[c].pc \notin {"delay", "init_first", "init_co"})
              => callers[c].pc = "stopped"

\* C5 witness: a get() made after the failure has been rejected, and so has the
\* checkpoint loop's init()
C5_Witness ==
  /\ ReplicationFailed
  /\ \E c \in Users :
       /\ callers[c].op = "get"
       /\ callers[c].late
       /\ callers[c].pc = "idle"
       /\ callers[c].res = "err"
  /\ callers[Sched].pc = "stopped"

\* C6: at most one snapshot write is in progress at any time, and while it is,
\* the in-flight handle names it, so every dump() call arriving meanwhile is
\* handed that write and opens no second writer.
C6_SingleWriteInFlight ==
  /\ Cardinality({k \in Attempts : WriteInFlight(k)}) <= 1
  /\ \A k \in Attempts : WriteInFlight(k) => databaseDumpPendingPromise = k

\* C6 witness: while one write is being streamed, the dump() that started it
\* and a dump() that was handed it are both waiting
C6_Witness ==
  \E c \in Procs, k \in Attempts :
    /\ dumps[k].st = "writing"
    /\ callers[c].pc = "dump_co"
    /\ callers[c].wait = k
    /\ \/ \E d \in Procs : callers[d].pc = "dump_first" /\ callers[d].wait = k
       \/ \E r \in Runs : lai[r].pc = "dump_first" /\ lai[r].wait = k

\* C7: every dump() call that has resolved, whether it started the write or
\* was coalesced onto it, belongs to a dump whose rename has been performed.
DumpResolved(c) ==
  \/ callers[c].op = "dump" /\ callers[c].pc = "idle" /\ callers[c].res = "ok"
  \/ callers[c].op = "sched" /\ callers[c].pc = "s_tick"
C7_DumpCallersShareOutcome ==
  \A c \in Procs : DumpResolved(c) => dumps[callers[c].wait].st = "renamed"

\* C8: the canonical snapshot path holds nothing or one complete snapshot.
C8_CanonicalIsComplete ==
  canonIno # None => files[canonIno].complete

\* C9: the file a failed snapshot write was writing to is never the file at
\* the canonical path: a failed dump changes at most the temporary file.
C9_FailedDumpLeavesCanonical ==
  \A k \in Attempts :
    (dumps[k].st = "wfailed" /\ dumps[k].fd # None) => canonIno # dumps[k].fd

\* C10: a failure of load() does not reject _loadAndInit(): a run whose load
\* failed is rejected only by a failure of its replication or of its dump.
C10_LoadFailureNonFatal ==
  \A r \in Runs :
    (lai[r].loadFailed /\ lai[r].pc = "rejected") => (lai[r].replicated \/ lai[r].replFailed)


\* C11: synced, once true, stays true in every step, and a failure or a
\* reconnect of the live replication session changes neither synced nor the
\* init() state nor any caller's pending or settled init()/get() call.
C11_SyncedAbsorbing ==
  [][/\ synced => synced'
     /\ (liveUp' # liveUp /\ live' = live)
          => UNCHANGED <<synced, initPromiseSync, lai, nLai, callers>>]_vars

\* C11 witness: the live session is down after a failure, the store is synced
\* and a get() that passed init() is about to read
C11_Witness ==
  /\ synced
  /\ live > 0
  /\ ~liveUp
  /\ \E c \in Users : callers[c].pc = "get_read" /\ callers[c].via = "synced"


\* what a read of document i shows for a stored value
Shown(v) == IF v = NoDoc THEN "NotFound" ELSE v

\* C12: a get(id) of a synced store returns the value LocalStore holds, which
\* is the remote's current value once the live session has delivered the
\* change and the old or the new value while it is being delivered, never
\* anything else.
C12_GetSeesOldOrNew ==
  [][\A c \in Users :
       (callers[c].pc = "get_read" /\ callers'[c].pc = "idle")
         => callers'[c].res \in {Shown(localDB[callers[c].id]), Shown(remote[callers[c].id])}]_vars

\* C13: the checkpoint loop never stops: _scheduleDBDump is always waiting for
\* its timer, inside init() or dump(), or about to reschedule itself.
C13_LoopNeverStops ==
  callers[Sched].pc # "stopped"


C15_PhasesInOrder ==
  /\ \A r \in Runs : lai[r].pc \in {"dump_first", "dump_co", "resolved"} => lai[r].replicated
  /\ synced => \E r \in Runs : /\ lai[r].pc = "resolved"
                               /\ lai[r].replicated
                               /\ dumps[lai[r].wait].st = "renamed"
  /\ live > 0 => synced


\* C16: every caller that is inside init() or get() eventually leaves it
\* (resolved or rejected), whether it started the run or was coalesced onto
\* it, and an init() that has resolved has done so on a synced store.
InCall(c) == callers[c].pc \in {"init_first", "init_co", "get_read"}
C16_CallsSettle ==
  /\ \A c \in Procs : InCall(c) ~> ~InCall(c)
  /\ [](\A c \in Users :
          (callers[c].op = "init" /\ callers[c].pc = "idle" /\ callers[c].res = "ok")
            => synced)

\* C16 witness: a get() that was coalesced onto the in-flight init has settled
\* with the rejection of the run
C16_Witness ==
  \E c \in Users :
    /\ callers[c].op = "get"
    /\ callers[c].via = "co"
    /\ callers[c].pc = "idle"
    /\ callers[c].res = "err"


\* C17: the checkpoint loop calls dump(), and waits in it, only on a synced
\* store, also when its init() was coalesced onto a run started by another
\* caller; and it leaves the wait of its timer only when the timer fires, so
\* it calls neither init() nor dump() before one interval has elapsed.
C17_LoopDumpsOnlySynced ==
  [][/\ SchedDump => synced
     /\ callers[Sched].pc \in {"s_dump", "dump_first", "dump_co", "s_tick"} => synced
     /\ (callers[Sched].pc = "delay" /\ callers'[Sched].pc # "delay") => TimerFire]_vars

\* C17 witness: the loop, whose init() was coalesced onto an in-flight run, has
\* called dump()
C17_Witness ==
  /\ callers[Sched].pc \in {"dump_first", "dump_co"}
  /\ callers[Sched].via = "co"
  /\ synced


\* C18: when a run of _loadAndInit() has loaded a valid snapshot and its batch
\* replication has failed, the run is rejected without having replicated, synced
\* is false, no live session exists, and every init() or get() that waited on
\* the run and has returned has returned the failure.
C18_SnapshotAloneNeverSyncs ==
  \A r \in Runs :
    (lai[r].loaded /\ lai[r].replFailed)
      => /\ lai[r].pc = "rejected"
         /\ ~lai[r].replicated
         /\ ~synced
         /\ live = 0
         /\ \A c \in Users :
              (callers[c].pc = "idle" /\ callers[c].op \in {"init", "get"} /\ callers[c].wait = r)
                => callers[c].res = "err"

\* C18 witness: the snapshot is in the local store, the replication has failed
\* and an init() has returned the rejection
C18_Witness ==
  \E r \in Runs : \E c \in Users :
    /\ lai[r].loaded /\ lai[r].replFailed
    /\ localDB = OldDocs
    /\ callers[c].op = "init" /\ callers[c].pc = "idle" /\ callers[c].wait = r
    /\ callers[c].res = "err"


\* C19: a live-replication session is started at most once; the step that
\* starts it is the continuation of the init() call that started the run, it
\* leaves synced true, and a caller coalesced onto the run starts none when it
\* returns.
C19_OneLiveSession ==
  [][/\ live <= 1
     /\ live' # live
          => /\ live = 0 /\ live' = 1
             /\ synced'
             /\ \E c \in Procs : callers[c].pc = "init_first" /\ callers'[c].pc # "init_first"
     /\ \A c \in Procs :
          (callers[c].pc = "init_co" /\ callers'[c].pc # "init_co") => live' = live]_vars

\* C19 witness: the session exists and a caller coalesced onto the run that
\* synced the store has returned from init()
C19_Witness ==
  /\ live = 1
  /\ \E c \in Users :
       /\ callers[c].op = "init" /\ callers[c].via = "co"
       /\ callers[c].pc = "idle" /\ callers[c].res = "ok"


\* a step taken after the write of attempt k has failed keeps the handle on k,
\* starts no write, and hands k's failure to every dump() called or returning
StickyFailure(k) ==
  /\ databaseDumpPendingPromise = k /\ databaseDumpPendingPromise' = k
  /\ nDumps' = nDumps
  /\ dumps'[k].st = "wfailed"
  /\ \A c \in Procs :
       /\ (callers[c].pc \notin {"dump_first", "dump_co"} /\ callers'[c].pc \in {"dump_first", "dump_co"})
            => callers'[c].pc = "dump_co" /\ callers'[c].wait = k
       /\ (callers[c].pc = "dump_co" /\ callers[c].wait = k /\ callers'[c].pc # "dump_co")
            => callers'[c].res = "err"
  /\ \A r \in Runs :
       (lai[r].pc = "replicate" /\ lai'[r].pc \in {"dump_first", "dump_co"})
         => lai'[r].pc = "dump_co" /\ lai'[r].wait = k

\* C20: after the streamed write of a dump() has failed, the handle is never
\* cleared, every later dump() gets that failure without a new write, and the
\* canonical snapshot is never replaced again.
C20_FailedWriteSticky ==
  [][\A k \in Attempts :
       dumps[k].st = "wfailed" => StickyFailure(k) /\ canonIno' = canonIno]_vars


\* the shape of the HTTP helper's state
HttpTypeOK ==
  /\ Len(http.injections) <= MaxInjections
  /\ \A i \in 1..Len(http.injections) :
       /\ http.injections[i].host \in Hosts /\ http.injections[i].func \in RequestFuncs
       /\ http.injections[i].id = i
  /\ Len(http.responseInjections) <= MaxResponseInjections
  /\ \A i \in 1..Len(http.responseInjections) :
       http.responseInjections[i].host \in Hosts /\ http.responseInjections[i].func \in ResponseFuncs
  /\ http.call.pc \in {"idle", "inject", "request", "respond", "backoff", "resolved", "rejected"}
  /\ http.call.host \in Hosts
  /\ http.call.ignoreErrors \in BOOLEAN
  /\ http.call.attempts \in 0..(Retries + 1)
  /\ http.call.resp \in Responses /\ http.call.result \in Responses

\* the ids of the registered request injections that match the URL of the
\* call, in registration order
MatchingIds ==
  LET m == SelectSeq(http.injections, Matches) IN [i \in 1..Len(m) |-> m[i].id]

\* the response loop of an attempt is over (line 163 is reached)
AtEvaluation == http.call.pc = "respond" /\ http.call.idx > Len(http.responseInjections)

\* C21: one call of the HTTP helper makes at most Retries + 1 = 4 requests
\* and is settled by the outcome of the fourth; an attempt whose response
\* loop is over is retried exactly when the response is undefined or its
\* statusCode is >= 400 without ignoreErrors (and a retry is left); the call
\* resolves only with a defined response that has statusCode < 400 or was
\* made with ignoreErrors; and every request is made right after all the
\* matching request injections have run, in registration order.
C21_BoundedRetry ==
  [][LET c == http.call
         d == http'.call
         wanted == ~c.resp.defined \/ (~c.ignoreErrors /\ c.resp.statusCode >= ErrorStatus)
     IN
     /\ c.attempts <= Retries + 1
     /\ (c.attempts = Retries + 1 /\ d # c) => d.pc \in {"respond", "resolved", "rejected", "idle"}
     /\ (d.pc = "request" /\ c.pc # "request")
          => d.attempts = c.attempts + 1 /\ c.ran = MatchingIds
     /\ (d.pc = "inject" /\ c.pc # "inject")
          => \/ c.pc = "idle" /\ d.attempts = 0
             \/ c.pc = "backoff" /\ d.attempts = c.attempts /\ d.ran = <<>>
     /\ d.pc = "backoff" => (c.pc = "backoff" \/ (AtEvaluation /\ wanted))
     /\ (AtEvaluation /\ d # c)
          => IF wanted
             THEN d.pc = IF c.attempts <= Retries THEN "backoff" ELSE "rejected"
             ELSE d.pc = "resolved" /\ d.result = c.resp
     /\ d.pc = "resolved"
          => /\ d.result.defined
             /\ d.result.statusCode < ErrorStatus \/ d.ignoreErrors]_vars

\* C21 witness: a call made without ignoreErrors has resolved at its fourth
\* request, before which every registered request injection ran again
C21_Witness ==
  /\ http.call.pc = "resolved"
  /\ http.call.attempts = Retries + 1
  /\ ~http.call.ignoreErrors
  /\ Len(http.call.ran) = MaxInjections
  /\ Len(http.responseInjections) > 0

====
